---- MODULE Spec2Model ----
(***************************************************************************)
(* The users route of the web UI (webui/app/api/users/route.ts): three     *)
(* HTTP handlers, POST (register or top up), GET (list) and PUT (debit),   *)
(* each running direct SQL statements against the users table over a       *)
(* connection of its own.  A handler suspends at every await, so handler   *)
(* invocations interleave between database round trips; one action of the  *)
(* model is the code a handler runs from one database await to the next.   *)
(***************************************************************************)
EXTENDS Integers, Sequences, FiniteSets, TLC

\* ------------------------------------------------------------------ bounds

\* Handler invocations that can be in flight at the same time.
NumSlots == 2
\* Handler invocations begun in one behaviour of Spec.
MaxCalls == 2
\* Handler invocations begun in one behaviour of SeqSpec.
MaxSeqCalls == 8

\* ------------------------------------------------------- program constants

\* token_remaining of a freshly inserted row (the literal 5 of the INSERT).
DefaultTokens == 5
\* Increment of the top-up UPDATE.
TopUpTokens == 5
\* Decrement of the debit UPDATE.
DebitTokens == 1

\* ------------------------------------------------------------------ values

\* JavaScript null and SQL NULL.
Null == "<null>"

Slots == 1..NumSlots

\* The e-mail addresses of the identities that sign in.
Emails == {"a@x.com", "b@x.com"}

\* The user of a session: absent, or a name, an email and an image, each of
\* which the session provider may leave null.
NoUser == [isNull |-> TRUE, name |-> Null, email |-> Null, image |-> Null]

SessionUser(e) ==
    [isNull |-> FALSE,
     name   |-> IF e = "a@x.com" THEN "Ann" ELSE Null,
     email  |-> e,
     image  |-> IF e = "a@x.com" THEN "http://img/a" ELSE Null]

\* What getServerSession() can resolve to: no session, a session without a
\* user, a user whose email is null or empty, and a user with an address.
NoSession == [isNull |-> TRUE, user |-> NoUser]

Sessions ==
    {NoSession, [isNull |-> FALSE, user |-> NoUser]}
        \cup {[isNull |-> FALSE, user |-> SessionUser(e)] :
                e \in Emails \cup {Null, ""}}

\* A row of the users table.
UserRow(name, mail, image, tokens, date) ==
    [name |-> name, email |-> mail, google_image_url |-> image,
     token_remaining |-> tokens, signup_date |-> date]

\* The tables the database can hold when the server starts: nothing yet, or
\* the accounts registered by an earlier run.
InitialTables ==
    {<<>>,
     <<UserRow("Ann", "a@x.com", "http://img/a", DefaultTokens, 0)>>,
     <<UserRow("Ann", "a@x.com", "http://img/a", DefaultTokens, 0),
       UserRow(Null, "b@x.com", Null, DefaultTokens, 0)>>}

VARIABLES
    sequential,   \* do requests arrive one after the other, from one identity
    users,        \* the users table, in insertion order
    openConns,    \* connections currently open on the database server
    calls,        \* handler invocations begun so far
    pc,           \* per slot: the await the invocation is suspended at
    method,       \* per slot: "POST", "GET" or "PUT"
    sesh,         \* per slot: the resolved session
    email,        \* per slot: the handler's local `email`
    found,        \* per slot: POST's local `users` (result of its SELECT)
    rows,         \* per slot: GET's local `rows`
    connection,   \* per slot: does `connection` hold an open connection
    last,         \* the request answered last: method, session, Response
    opened,       \* history, per slot: connections this invocation opened
    readAt,       \* history, per slot: `writes` when its SELECT executed
    leaked,       \* history: invocations that failed between open and close
    writes,       \* history: INSERT and UPDATE statements executed so far
    nPost,        \* history of a sequential run, per e-mail: POSTs answered 200
    nPut,         \* history of a sequential run, per e-mail: PUTs answered 200
    earlyPut,     \* history of a sequential run, per e-mail: a PUT debited
                  \* before the first POST was answered
    dbFailed      \* history of a sequential run: a database call failed

progVars == <<sequential, users, openConns, calls, pc, method, sesh, email, found, rows,
              connection, last>>
histVars == <<opened, readAt, leaked, writes>>
seqVars  == <<nPost, nPut, earlyPut, dbFailed>>
vars == <<progVars, histVars, seqVars>>

\* ------------------------------------------------------------ pure helpers

\* POST's `email`: the session's email when session, user and email are all
\* truthy, null otherwise.
PostEmail(s) ==
    IF ~s.isNull /\ ~s.user.isNull /\ s.user.email # Null /\ s.user.email # ""
    THEN s.user.email ELSE Null

\* A guard `email === undefined`, which null and "" both pass.
MissingEmailUndefinedOnly(e) == FALSE

\* POST's guard `!email`.
MissingEmail(e) == e = Null \/ e = ""

\* PUT's `email`: the session's email whenever session and user are truthy.
PutEmail(s) ==
    IF ~s.isNull /\ ~s.user.isNull THEN s.user.email ELSE Null

\* WHERE email = ?: a NULL parameter compares equal to nothing.
Matches(row, e) == e # Null /\ row.email = e

\* SELECT * FROM users WHERE email = ?
SelectByEmail(table, e) == SelectSeq(table, LAMBDA row : Matches(row, e))

\* An INSERT that leaves token_remaining out: the row starts at 0.
InsertUserNoTokens(table, name, e, image, now) ==
    Append(table, UserRow(name, e, image, 0, now))

\* INSERT INTO users (...) VALUES (?, ?, ?, 5, NOW())
InsertUser(table, name, e, image, now) ==
    Append(table, UserRow(name, e, image, DefaultTokens, now))

\* The top-up without its WHERE clause.
TopUpEveryRow(table, e) ==
    [k \in 1..Len(table) |->
        [table[k] EXCEPT !.token_remaining = @ + TopUpTokens]]

\* UPDATE users SET token_remaining = token_remaining + 5 WHERE email = ?
TopUp(table, e) ==
    [k \in 1..Len(table) |->
        IF Matches(table[k], e)
        THEN [table[k] EXCEPT !.token_remaining = @ + TopUpTokens]
        ELSE table[k]]

\* The debit without its WHERE clause.
DebitEveryRow(table, e) ==
    [k \in 1..Len(table) |->
        [table[k] EXCEPT !.token_remaining = @ - DebitTokens]]

\* A debit that stops at zero: GREATEST(token_remaining - 1, 0).
DebitFloored(table, e) ==
    [k \in 1..Len(table) |->
        IF Matches(table[k], e) /\ table[k].token_remaining >= DebitTokens
        THEN [table[k] EXCEPT !.token_remaining = @ - DebitTokens]
        ELSE table[k]]

\* UPDATE users SET token_remaining = token_remaining - 1 WHERE email = ?
Debit(table, e) ==
    [k \in 1..Len(table) |->
        IF Matches(table[k], e)
        THEN [table[k] EXCEPT !.token_remaining = @ - DebitTokens]
        ELSE table[k]]

\* SELECT * FROM users LIMIT 1
SelectFirst(table) == SubSeq(table, 1, IF Len(table) > 0 THEN 1 ELSE 0)

\* SELECT * FROM users
SelectAll(table) == table

\* JSON.stringify of a column value: null stays null, a string or a date
\* becomes a JSON string, a number a JSON number.
JsonText(v) ==
    IF v = Null THEN [type |-> "null"] ELSE [type |-> "string", value |-> v]

JsonNumber(n) == [type |-> "number", value |-> n]

JsonDate(d) == [type |-> "string", value |-> d]

JsonRow(row) ==
    [name |-> JsonText(row.name), email |-> JsonText(row.email),
     google_image_url |-> JsonText(row.google_image_url),
     token_remaining |-> JsonNumber(row.token_remaining),
     signup_date |-> JsonDate(row.signup_date)]

\* JSON.stringify(rows)
Stringify(rs) == [k \in 1..Len(rs) |-> JsonRow(rs[k])]

Message(status, text) ==
    [status |-> status, body |-> [kind |-> "message", text |-> text]]

Error(status, text) ==
    [status |-> status, body |-> [kind |-> "error", text |-> text]]

\* The Response of each handler's success path.
Success(m, rs) ==
    CASE m = "POST" -> Message(200, "Operation successful")
      [] m = "GET"  -> [status |-> 200,
                        body |-> [kind |-> "json", rows |-> Stringify(rs)]]
      [] m = "PUT"  -> Message(200, "1 token subtracted successfully")

\* The Response of each handler's catch block.
Failure(m) ==
    CASE m = "POST" -> Error(500, "Failed to execute operation")
      [] m = "GET"  -> Error(500, "Failed to fetch users")
      [] m = "PUT"  -> Error(500, "Failed to subtract tokens")

\* A catch block that ends the handler's connection.
CatchClosesConnection(n) == n - 1

\* What a catch block does to the connections open on the server, the
\* handler's among them: nothing.
CatchConnections(n) == n

\* The statement a handler runs first on its connection.
FirstStatement(m) ==
    CASE m = "POST" -> "select" [] m = "GET" -> "query" [] m = "PUT" -> "debit"

Statements == {"select", "insert", "update", "query", "debit"}

Active(i) == pc[i] # "idle"

NoneActive == \A j \in Slots : ~Active(j)

\* A new invocation takes the lowest slot that is free.
Free(i) == ~Active(i) /\ \A j \in Slots : j < i => Active(j)

\* The sessions of the requests that arrive: any, or in a sequential run
\* those of one identity.
SeqSessions == {[isNull |-> FALSE, user |-> SessionUser("a@x.com")]}

Carried == IF sequential THEN SeqSessions ELSE Sessions

\* A request can arrive and take slot i.
Admit(i) ==
    /\ Free(i)
    /\ calls < (IF sequential THEN MaxSeqCalls ELSE MaxCalls)
    /\ sequential => NoneActive

\* -------------------------------------------------------------------- Init

NoResponse == [status |-> 0, body |-> [kind |-> "none"]]

\* Before any invocation has returned.
NoCall == [method |-> "none", sesh |-> NoSession, response |-> NoResponse]

\* The server starts on one of `tables`, with no request under way.
Boot(seq, tables) ==
    /\ sequential = seq
    /\ users \in tables
    /\ openConns = 0
    /\ calls = 0
    /\ pc = [i \in Slots |-> "idle"]
    /\ method = [i \in Slots |-> "none"]
    /\ sesh = [i \in Slots |-> NoSession]
    /\ email = [i \in Slots |-> Null]
    /\ found = [i \in Slots |-> <<>>]
    /\ rows = [i \in Slots |-> <<>>]
    /\ connection = [i \in Slots |-> FALSE]
    /\ last = NoCall
    /\ opened = [i \in Slots |-> 0]
    /\ readAt = [i \in Slots |-> 0]
    /\ leaked = 0
    /\ writes = 0
    /\ nPost = [e \in Emails |-> 0]
    /\ nPut = [e \in Emails |-> 0]
    /\ earlyPut = [e \in Emails |-> FALSE]
    /\ dbFailed = FALSE

Init == Boot(FALSE, InitialTables)

\* ----------------------------------------------------------------- actions

\* NOW(): the server's clock, which advances as requests arrive.
Now == calls

\* The history of a run of sequential requests, read off the step slot i takes.
Observe(i) ==
    LET e == email[i]
        answered == pc[i] = "end" /\ pc'[i] = "idle" /\ e \in Emails
        debited == pc[i] = "debit" /\ pc'[i] = "end" /\ e \in Emails
    IN  IF ~sequential THEN UNCHANGED seqVars ELSE
        /\ nPost' = IF answered /\ method[i] = "POST"
                    THEN [nPost EXCEPT ![e] = @ + 1] ELSE nPost
        /\ nPut' = IF answered /\ method[i] = "PUT"
                   THEN [nPut EXCEPT ![e] = @ + 1] ELSE nPut
        /\ earlyPut' = IF debited /\ nPost[e] = 0
                       THEN [earlyPut EXCEPT ![e] = TRUE] ELSE earlyPut
        /\ dbFailed' = (dbFailed \/ (pc[i] \notin {"idle", "end"} /\ pc'[i] = "idle"))

\* The invocation in slot i, a request with method m and session s, returns
\* Response r: its locals go out of scope and the slot is free again.
Return(i, m, s, r) ==
    /\ last' = [method |-> m, sesh |-> s, response |-> r]
    /\ pc' = [pc EXCEPT ![i] = "idle"]
    /\ method' = [method EXCEPT ![i] = "none"]
    /\ sesh' = [sesh EXCEPT ![i] = NoSession]
    /\ email' = [email EXCEPT ![i] = Null]
    /\ found' = [found EXCEPT ![i] = <<>>]
    /\ rows' = [rows EXCEPT ![i] = <<>>]
    /\ opened' = [opened EXCEPT ![i] = 0]
    /\ readAt' = [readAt EXCEPT ![i] = 0]
    /\ Observe(i)

\* The invocation in slot i suspends at await `at`.
Await(i, at) ==
    /\ pc' = [pc EXCEPT ![i] = at]
    /\ Observe(i)
    /\ UNCHANGED last

\* A handler is entered in slot i with session s and local email e, and
\* calls createConnection.
Enter(i, m, s, e) ==
    /\ method' = [method EXCEPT ![i] = m]
    /\ sesh' = [sesh EXCEPT ![i] = s]
    /\ email' = [email EXCEPT ![i] = e]
    /\ Await(i, "connect")
    /\ UNCHANGED <<found, rows, connection, opened, readAt>>

\* POST up to its first database await: resolve the session, answer 400 when
\* there is no email, otherwise call createConnection.
PostBegin(i, s) ==
    /\ Admit(i)
    /\ calls' = calls + 1
    /\ IF MissingEmail(PostEmail(s))
       THEN /\ Return(i, "POST", s, Error(400, "No email provided"))
            /\ UNCHANGED connection
       ELSE Enter(i, "POST", s, PostEmail(s))
    /\ UNCHANGED <<sequential, users, openConns, leaked, writes>>

\* GET up to its first database await: call createConnection.
GetBegin(i) ==
    /\ Admit(i)
    /\ calls' = calls + 1
    /\ Enter(i, "GET", NoSession, Null)
    /\ UNCHANGED <<sequential, users, openConns, leaked, writes>>

\* A PUT that answers 400 without an email, as POST does.
PutBeginChecked(i, s) ==
    /\ Admit(i)
    /\ calls' = calls + 1
    /\ IF MissingEmail(PutEmail(s))
       THEN /\ Return(i, "PUT", s, Error(400, "No email provided"))
            /\ UNCHANGED connection
       ELSE Enter(i, "PUT", s, PutEmail(s))
    /\ UNCHANGED <<sequential, users, openConns, leaked, writes>>

\* PUT up to its first database await: resolve the session, take its email
\* (null without a session or user) and call createConnection.
PutBegin(i, s) ==
    /\ Admit(i)
    /\ calls' = calls + 1
    /\ Enter(i, "PUT", s, PutEmail(s))
    /\ UNCHANGED <<sequential, users, openConns, leaked, writes>>

\* createConnection resolves; the handler issues its first statement.
Connect(i) ==
    /\ pc[i] = "connect"
    /\ Await(i, FirstStatement(method[i]))
    /\ connection' = [connection EXCEPT ![i] = TRUE]
    /\ openConns' = openConns + 1
    /\ opened' = [opened EXCEPT ![i] = @ + 1]
    /\ UNCHANGED <<sequential, users, calls, method, sesh, email, found, rows,
                   readAt, leaked, writes>>

\* createConnection rejects: the catch block answers 500.
ConnectFails(i) ==
    /\ pc[i] = "connect"
    /\ Return(i, method[i], sesh[i], Failure(method[i]))
    /\ UNCHANGED <<sequential, users, openConns, calls, connection, leaked, writes>>

\* POST's SELECT resolves; the handler issues the INSERT or the UPDATE.
PostSelect(i) ==
    /\ pc[i] = "select"
    /\ found' = [found EXCEPT ![i] = SelectByEmail(users, email[i])]
    /\ Await(i, IF Len(found'[i]) = 0 THEN "insert" ELSE "update")
    /\ readAt' = [readAt EXCEPT ![i] = writes]
    /\ UNCHANGED <<sequential, users, openConns, calls, method, sesh, email, rows,
                   connection, opened, leaked, writes>>

\* POST's INSERT executes; the handler calls connection.end().
PostInsert(i) ==
    /\ pc[i] = "insert"
    /\ users' = InsertUser(users, sesh[i].user.name, email[i],
                           sesh[i].user.image, Now)
    /\ Await(i, "end")
    /\ writes' = writes + 1
    /\ UNCHANGED <<sequential, openConns, calls, method, sesh, email, found, rows,
                   connection, opened, readAt, leaked>>

\* A top-up computed in the handler from the balance its SELECT read:
\* UPDATE users SET token_remaining = <read + 5> WHERE email = ?
PostUpdateFromRead(i) ==
    /\ pc[i] = "update"
    /\ users' = [k \in 1..Len(users) |->
                   IF Matches(users[k], email[i])
                   THEN [users[k] EXCEPT !.token_remaining =
                           found[i][1].token_remaining + TopUpTokens]
                   ELSE users[k]]
    /\ Await(i, "end")
    /\ writes' = writes + 1
    /\ UNCHANGED <<sequential, openConns, calls, method, sesh, email, found,
                   rows, connection, opened, readAt, leaked>>

\* POST's UPDATE executes; the handler calls connection.end().
PostUpdate(i) ==
    /\ pc[i] = "update"
    /\ users' = TopUp(users, email[i])
    /\ Await(i, "end")
    /\ writes' = writes + 1
    /\ UNCHANGED <<sequential, openConns, calls, method, sesh, email, found, rows,
                   connection, opened, readAt, leaked>>

\* GET's SELECT resolves; the handler calls connection.end().
GetQuery(i) ==
    /\ pc[i] = "query"
    /\ rows' = [rows EXCEPT ![i] = SelectAll(users)]
    /\ Await(i, "end")
    /\ UNCHANGED <<sequential, users, openConns, calls, method, sesh, email, found,
                   connection, opened, readAt, leaked, writes>>

\* PUT's UPDATE executes; the handler calls connection.end().
PutUpdate(i) ==
    /\ pc[i] = "debit"
    /\ users' = Debit(users, email[i])
    /\ Await(i, "end")
    /\ writes' = writes + 1
    /\ UNCHANGED <<sequential, openConns, calls, method, sesh, email, found, rows,
                   connection, opened, readAt, leaked>>

\* connection.end() resolves; the handler returns its 200 Response.
End(i) ==
    /\ pc[i] = "end"
    /\ connection' = [connection EXCEPT ![i] = FALSE]
    /\ openConns' = openConns - 1
    /\ Return(i, method[i], sesh[i], Success(method[i], rows[i]))
    /\ UNCHANGED <<sequential, users, calls, leaked, writes>>

\* A statement rejects (and changes nothing): the catch block answers 500 and
\* leaves the connection as it is.
StatementFails(i) ==
    /\ pc[i] \in Statements
    /\ Return(i, method[i], sesh[i], Failure(method[i]))
    /\ connection' = [connection EXCEPT ![i] = FALSE]
    /\ openConns' = CatchConnections(openConns)
    /\ leaked' = leaked + 1
    /\ UNCHANGED <<sequential, users, calls, writes>>

\* ---------------------------------------------------------- the server

Next ==
    \E i \in Slots :
        \/ \E s \in Carried : PostBegin(i, s)
        \/ GetBegin(i)
        \/ \E s \in Carried : PutBegin(i, s)
        \/ Connect(i)
        \/ ConnectFails(i)
        \/ PostSelect(i)
        \/ PostInsert(i)
        \/ PostUpdate(i)
        \/ GetQuery(i)
        \/ PutUpdate(i)
        \/ End(i)
        \/ StatementFails(i)

\* Requests arrive at any time and their handlers interleave.
Spec == Init /\ [][Next]_vars

\* Requests arrive one after the other, on an empty table, all of them
\* carrying the session of the same identity.
SeqInit == Boot(TRUE, {<<>>})

SeqSpec == SeqInit /\ [][Next]_vars

\* ------------------------------------------------------------ properties

\* Slot i takes the step.
StepOf(i) == pc'[i] # pc[i]

\* The invocation in slot i returns in the step.
Returns(i) == pc[i] # "idle" /\ pc'[i] = "idle"

\* The session is absent or has no user.
AbsentIdentity(s) == s.isNull \/ s.user.isNull

\* The session is absent, has no user, or has a null or empty user email.
NoIdentity(s) == AbsentIdentity(s) \/ s.user.email = Null \/ s.user.email = ""

\* The 200 Response with a message.
Ok(text) == [status |-> 200, body |-> [kind |-> "message", text |-> text]]

\* Table `after` is table `before` with `delta` added to token_remaining in
\* the rows whose email is e, and nothing else changed.
Credited(before, after, e, delta) ==
    /\ Len(after) = Len(before)
    /\ \A k \in 1..Len(before) :
         after[k] = IF before[k].email = e
                    THEN [before[k] EXCEPT !.token_remaining = @ + delta]
                    ELSE before[k]

\* C1: a POST whose session is absent, has no user, or has a null or empty
\* user email never gets as far as createConnection; it is answered at once
\* with 400 {"error": "No email provided"}, and answering it opens no
\* connection, executes no INSERT or UPDATE and leaves the table as it was.
C1_MissingIdentityRejected ==
    /\ [](\A i \in Slots : method[i] = "POST" => ~NoIdentity(sesh[i]))
    /\ [](last.method = "POST" /\ NoIdentity(last.sesh)
            => last.response =
                 [status |-> 400,
                  body |-> [kind |-> "error", text |-> "No email provided"]])
    /\ [][(calls' = calls + 1 /\ pc' = pc)
            => /\ last'.method = "POST" /\ NoIdentity(last'.sesh)
               /\ users' = users
               /\ openConns' = openConns
               /\ connection' = connection
               /\ writes' = writes]_vars

C1_Witness ==
    /\ last.method = "POST"
    /\ ~AbsentIdentity(last.sesh) /\ last.sesh.user.email = ""
    /\ last.response.status = 400
    /\ users # <<>>
    /\ calls = 2

\* C2: in a POST with session email e, a SELECT that finds no row for e is
\* followed by the INSERT; the INSERT appends exactly one row, with email e
\* and token_remaining 5, and changes no row that was there; no other step of
\* the invocation changes the table, and it returns 200.
C2_NewEmailInserted ==
    [][\A i \in Slots :
        (method[i] = "POST" /\ StepOf(i)) =>
          LET e == sesh[i].user.email
              n == Len(users)
          IN  CASE pc[i] = "select" /\ ~Returns(i) ->
                     /\ users' = users
                     /\ (\A k \in 1..n : users[k].email # e) => pc'[i] = "insert"
                [] pc[i] = "insert" /\ ~Returns(i) ->
                     /\ found[i] = <<>>
                     /\ Len(users') = n + 1
                     /\ \A k \in 1..n : users'[k] = users[k]
                     /\ users'[n + 1].email = e
                     /\ users'[n + 1].token_remaining = 5
                [] pc[i] = "end" /\ found[i] = <<>> ->
                     /\ users' = users
                     /\ last'.response = Ok("Operation successful")
                [] pc[i] = "update" -> TRUE
                [] OTHER -> users' = users]_vars

C2_Witness ==
    /\ calls = 1
    /\ last.method = "POST" /\ last.response.status = 200
    /\ Len(users) = 2
    /\ users[2].email = "b@x.com" /\ users[2].signup_date = 1
    /\ users[2].token_remaining = 5

\* C3: in a POST with session email e, a SELECT that finds a row for e is
\* followed by the UPDATE; the UPDATE adds exactly 5 to token_remaining of the
\* rows for e, changes no row of another email and leaves the number of rows
\* as it was; no other step of the invocation changes the table, and it
\* returns 200.
C3_ExistingEmailToppedUp ==
    [][\A i \in Slots :
        (method[i] = "POST" /\ StepOf(i)) =>
          LET e == sesh[i].user.email
          IN  CASE pc[i] = "select" /\ ~Returns(i) ->
                     /\ users' = users
                     /\ (\E k \in 1..Len(users) : users[k].email = e)
                          => pc'[i] = "update"
                [] pc[i] = "update" /\ ~Returns(i) ->
                     /\ found[i] # <<>>
                     /\ \E k \in 1..Len(users) : users[k].email = e
                     /\ Credited(users, users', e, 5)
                [] pc[i] = "end" /\ found[i] # <<>> ->
                     /\ users' = users
                     /\ last'.response = Ok("Operation successful")
                [] pc[i] = "insert" -> TRUE
                [] OTHER -> users' = users]_vars

C3_Witness ==
    /\ calls = 1
    /\ last.method = "POST" /\ last.response.status = 200
    /\ Len(users) = 2
    /\ users[1].token_remaining = 5 /\ users[2].token_remaining = 10

\* C4: in a PUT with session email e, the UPDATE subtracts exactly 1 from
\* token_remaining of the rows whose email is e, changes no row of another
\* email and inserts or deletes no row; no other step of the invocation
\* changes the table, and it returns 200.
C4_DebitByOne ==
    [][\A i \in Slots :
        (method[i] = "PUT" /\ sesh[i].user.email \in Emails /\ StepOf(i)) =>
          LET e == sesh[i].user.email
          IN  CASE pc[i] = "debit" /\ ~Returns(i) ->
                     Credited(users, users', e, -1)
                [] pc[i] = "end" ->
                     /\ users' = users
                     /\ last'.response = Ok("1 token subtracted successfully")
                [] OTHER -> users' = users]_vars

C4_Witness ==
    /\ calls = 1
    /\ last.method = "PUT" /\ last.response.status = 200
    /\ Len(users) = 2
    /\ users[1].token_remaining = 4 /\ users[2].token_remaining = 5

\* C5: no two rows of the users table have the same email.
C5_EmailUnique ==
    \A j, k \in 1..Len(users) : users[j].email = users[k].email => j = k

\* C6: when requests arrive one after the other on a table that starts
\* empty, no database call fails, and n >= 1 POSTs and m PUTs of the same
\* email e have been answered, no PUT having come before the first POST, the
\* table holds exactly one row for e between requests, its token_remaining is
\* 5*n - m, below zero when m > 5*n, and that row and value are what a GET
\* returns.
C6_SequentialBalance ==
    \A e \in Emails :
        (sequential /\ ~dbFailed /\ ~earlyPut[e] /\ nPost[e] >= 1) =>
          LET balance == 5 * nPost[e] - nPut[e]
              mine == {k \in 1..Len(users) : users[k].email = e}
              body == last.response.body
          IN  /\ NoneActive =>
                   /\ Cardinality(mine) = 1
                   /\ \A k \in mine : users[k].token_remaining = balance
              /\ (last.method = "GET" /\ last.response.status = 200) =>
                   LET got == {k \in 1..Len(body.rows) :
                                 body.rows[k].email.type = "string"
                                 /\ body.rows[k].email.value = e}
                   IN  /\ Cardinality(got) = 1
                       /\ \A k \in got :
                            body.rows[k].token_remaining =
                              [type |-> "number", value |-> balance]

C6_Witness ==
    /\ sequential /\ ~dbFailed /\ ~earlyPut["a@x.com"]
    /\ nPost["a@x.com"] = 1 /\ nPut["a@x.com"] = 6
    /\ last.method = "GET" /\ last.response.status = 200
    /\ Len(last.response.body.rows) = 1
    /\ last.response.body.rows[1].token_remaining.value = -1

\* The JSON text j is the column value v.
SameText(j, v) ==
    IF v = Null THEN j.type = "null" ELSE j.type = "string" /\ j.value = v

\* The JSON array holds the rows of the table, one for one, field by field.
Verbatim(json, table) ==
    /\ Len(json) = Len(table)
    /\ \A k \in 1..Len(table) :
         /\ SameText(json[k].name, table[k].name)
         /\ SameText(json[k].email, table[k].email)
         /\ SameText(json[k].google_image_url, table[k].google_image_url)
         /\ json[k].token_remaining.type = "number"
         /\ json[k].token_remaining.value = table[k].token_remaining
         /\ json[k].signup_date.value = table[k].signup_date

\* C7: no step of a GET changes the users table; its SELECT reads every row
\* of the table as it is at that moment, those rows stay what the handler
\* holds while other invocations run, and the 200 Response carries them one
\* for one with the same field values.
C7_ListingVerbatim ==
    [][\A i \in Slots :
        /\ (method[i] = "GET" /\ StepOf(i)) =>
             /\ users' = users
             /\ (pc[i] = "query" /\ ~Returns(i)) => rows'[i] = users
             /\ pc[i] = "end" =>
                  /\ last'.response.status = 200
                  /\ last'.response.body.kind = "json"
                  /\ Verbatim(last'.response.body.rows, rows[i])
        /\ (method[i] = "GET" /\ ~StepOf(i)) => rows'[i] = rows[i]]_vars

C7_Witness ==
    /\ last.method = "GET" /\ last.response.status = 200
    /\ Len(last.response.body.rows) = 2
    /\ last.response.body.rows[2].token_remaining.value = 5
    /\ users[2].token_remaining = 10

\* Two POSTs of the same email have each read its row and topped it up, both
\* having read before either wrote and no other statement having written
\* since: both are about to return.
BothToppedUp(i, j) ==
    /\ i # j
    /\ method[i] = "POST" /\ method[j] = "POST"
    /\ email[i] = email[j]
    /\ pc[i] = "end" /\ pc[j] = "end"
    /\ found[i] # <<>> /\ found[j] # <<>>
    /\ readAt[i] = readAt[j]
    /\ writes = readAt[i] + 2

\* Every row of email e holds `delta` more tokens than the row `read` of it.
Gained(e, read, delta) ==
    /\ \E k \in 1..Len(users) : users[k].email = e
    /\ \A k \in 1..Len(users) :
         users[k].email = e =>
           \E r \in 1..Len(read) :
             users[k] = [read[r] EXCEPT !.token_remaining = @ + delta]

\* C8 as stated: when two concurrent POSTs of the same existing email have
\* both read the row and both topped it up, the row has gained only 5.
C8_LostUpdate ==
    \A i, j \in Slots : BothToppedUp(i, j) => Gained(email[i], found[i], 5)

\* C8 as amended: when two concurrent POSTs of the same existing email have
\* both read the row before either topped it up, and both have topped it up,
\* the row has gained 10, not 5; and each of them then returns 200 without
\* touching the table again.
C8_NoLostUpdate ==
    /\ [](\A i, j \in Slots :
            BothToppedUp(i, j) => Gained(email[i], found[i], 10))
    /\ [][\A i \in Slots :
            (method[i] = "POST" /\ pc[i] = "end" /\ StepOf(i)) =>
               /\ last'.response.status = 200
               /\ users' = users]_vars

C8_Witness == \E i, j \in Slots : BothToppedUp(i, j)

\* C9: a PUT whose session is absent or has no user keeps a null email; its
\* UPDATE is executed and changes no row, no other step of it changes the
\* table, it is never answered 400, and unless a database call fails it
\* returns 200 {"message": "1 token subtracted successfully"}.
C9_AnonymousDebit ==
    /\ [](\A i \in Slots :
            (method[i] = "PUT" /\ AbsentIdentity(sesh[i])) => email[i] = Null)
    /\ [](last.method = "PUT" /\ AbsentIdentity(last.sesh)
            => last.response.status # 400)
    /\ [][\A i \in Slots :
            (method[i] = "PUT" /\ AbsentIdentity(sesh[i]) /\ StepOf(i)) =>
               /\ users' = users
               /\ (pc[i] = "debit" /\ ~Returns(i)) => writes' = writes + 1
               /\ pc[i] = "end" =>
                    last'.response = Ok("1 token subtracted successfully")]_vars

C9_Witness ==
    /\ last.method = "PUT" /\ last.sesh.isNull
    /\ last.response.status = 200
    /\ writes = 1
    /\ users # <<>>

\* C10: an invocation opens at most one connection; it returns 200 exactly
\* when it has reached connection.end(), which closes its connection before
\* the Response; a return from anywhere else is a 500 that closes nothing, so
\* an invocation that fails with its connection open leaves it open, and the
\* connections open on the server are those of the invocations under way
\* plus one for every invocation that failed between open and close.
C10_ConnectionLeak ==
    /\ [](\A i \in Slots : opened[i] <= 1 /\ (connection[i] => opened[i] = 1))
    /\ [](openConns = leaked + Cardinality({i \in Slots : connection[i]}))
    /\ [][\A i \in Slots :
            Returns(i) =>
               /\ last'.response.status = 200 <=> pc[i] = "end"
               /\ pc[i] = "end" => connection[i] /\ openConns' = openConns - 1
               /\ pc[i] # "end" =>
                    /\ last'.response.status = 500
                    /\ openConns' = openConns
                    /\ leaked' = leaked + (IF connection[i] THEN 1 ELSE 0)]_vars

C10_Witness ==
    /\ NoneActive
    /\ calls = 2
    /\ leaked = 1
    /\ openConns = 1
    /\ last.response.status = 200

====
